---- MODULE Spec2Model ----
(***************************************************************************)
(* Rep counter of the Sport application: the App component (state, the     *)
(* sampling loop, the start/stop/reset/select handlers, the cooldown       *)
(* timer) and the Gemini classification service it awaits.                 *)
(***************************************************************************)
EXTENDS Integers, Sequences, FiniteSets, TLC

\* ------------------------------------------------------------------ bounds
MaxReps == 2
MaxInFlight == 2
MaxLabels == 4

\* ------------------------------------------------------------- data model
Exercise == {"Pushups", "Squats", "JumpingJacks"}
NoExercise == "null"
RepState == {"UP", "DOWN", "NEUTRAL"}
NoPosition == "none"
NoInterval == 0

\* feedback messages (the Persian literals of the component, by role)
MsgChooseExercise == <<"chooseExercise">>
MsgAnalyzing == <<"analyzing">>
MsgGreat == <<"great">>
MsgSelectFirst == <<"selectFirst">>
MsgReady == <<"ready">>
MsgStopped == <<"stopped">>
MsgCounterZeroed == <<"counterZeroed">>
MsgPosition(position) == <<"position", position>>
MsgSelected(exercise) == <<"selected", exercise>>

\* --------------------------------------------- classification service
Whitespace == {" ", "\t"}
LowerLetters == <<"a","b","c","d","e","f","g","h","i","j","k","l","m",
                  "n","o","p","q","r","s","t","u","v","w","x","y","z">>
UpperLetters == <<"A","B","C","D","E","F","G","H","I","J","K","L","M",
                  "N","O","P","Q","R","S","T","U","V","W","X","Y","Z">>

\* String.prototype.toUpperCase on one character
UpperChar(c) ==
  IF \E i \in 1..26 : LowerLetters[i] = c
    THEN UpperLetters[CHOOSE i \in 1..26 : LowerLetters[i] = c]
    ELSE c

ToUpperCase(s) == [i \in 1..Len(s) |-> UpperChar(s[i])]

RECURSIVE TrimStart(_)
TrimStart(s) ==
  IF s # <<>> /\ Head(s) \in Whitespace THEN TrimStart(Tail(s)) ELSE s

RECURSIVE TrimEnd(_)
TrimEnd(s) ==
  IF s # <<>> /\ s[Len(s)] \in Whitespace
    THEN TrimEnd(SubSeq(s, 1, Len(s) - 1))
    ELSE s

\* String.prototype.trim
Trim(s) == TrimEnd(TrimStart(s))

TextUP == <<"U","P">>
TextDOWN == <<"D","O","W","N">>
TextNEUTRAL == <<"N","E","U","T","R","A","L">>

\* the body of the try block once generateContent has resolved
LabelOfText(text) ==
  IF text = TextUP THEN "UP"
  ELSE IF text = TextDOWN THEN "DOWN"
  ELSE IF text = TextNEUTRAL THEN "NEUTRAL"
  ELSE "NEUTRAL"

\* a mutant of ServiceAnalyzeFrame: no try/catch around the request
ServiceAnalyzeFrameNoCatch(response) ==
  IF response.kind = "ok"
    THEN LabelOfText(ToUpperCase(Trim(response.text)))
    ELSE "THROWN"

\* geminiService.analyzeFrame: the outcome of the awaited call.  A response
\* is [kind, text]: kind "rejected" (generateContent rejects), "noText"
\* (response.text is undefined, so .trim() throws) or "ok".
ServiceAnalyzeFrame(response) ==
  IF response.kind = "ok"
    THEN LabelOfText(ToUpperCase(Trim(response.text)))
    ELSE "NEUTRAL"

\* the upstream outcomes the sampling loop is exercised with
Responses ==
  { [kind |-> "rejected", text |-> <<>>],
    [kind |-> "noText", text |-> <<>>],
    [kind |-> "ok", text |-> <<"u","p">>],
    [kind |-> "ok", text |-> <<" ","D","o","w","n","\t">>],
    [kind |-> "ok", text |-> <<"N","E","U","T","R","A","L">>],
    [kind |-> "ok", text |-> <<"U","P",".">>] }

\* the upstream texts the service alone is exercised with: a word between
\* optional runs of whitespace
LeftPads == {<<>>, <<" ">>, <<"\t", " ">>}
RightPads == {<<>>, <<"\t">>, <<" ", " ">>}
LabelSpellings ==
  { <<"U","P">>, <<"u","p">>, <<"U","p">>,
    <<"D","O","W","N">>, <<"d","o","w","n">>, <<"D","o","w","n">>,
    <<"N","E","U","T","R","A","L">>, <<"n","e","u","t","r","a","l">> }
OtherWords ==
  { <<>>, <<"U","P",".">>, <<"U"," ","P">>, <<"'","U","P","'">>,
    <<"U","P","D","O","W","N">>, <<"s","i","d","e">>, <<"D","O","W","N","S">> }
Padded(words) ==
  {l \o w \o r : l \in LeftPads, w \in words, r \in RightPads}
WellFormedResponses == {[kind |-> "ok", text |-> t] : t \in Padded(LabelSpellings)}
MalformedResponses ==
  {[kind |-> "ok", text |-> t] : t \in Padded(OtherWords)}
    \cup {[kind |-> "rejected", text |-> <<>>], [kind |-> "noText", text |-> <<>>]}
UpstreamResponses == WellFormedResponses \cup MalformedResponses

\* ------------------------------------------------------------------ state
VARIABLES
  selectedExercise,    \* useState<Exercise | null>
  repCount,            \* useState<number>
  isCounting,          \* useState<boolean>
  feedbackMessage,     \* useState<string>
  lastPosition,        \* useRef<RepState>
  repStateCooldown,    \* useRef<boolean>
  analysisIntervalRef, \* useRef<number | null>: id of the last interval set
  intervals,           \* active setInterval timers: [id, exercise of the closure]
  inflight,            \* awaited classification requests, in issue order
  cooldownTimers,      \* pending 500ms timeouts in firing order; TRUE marks the
                       \* one scheduled by the rep that last set the cooldown
  position,            \* the label the last resolved request returned
  resolvedIndex,       \* place in issue order of the last resolved request
  lastOp,              \* the handler or callback that ran last
  svcResponse,         \* classification service alone: the upstream outcome
  svcResult,           \* classification service alone: what it resolved to
  labels,              \* label scenario: the labels the classifier will return
  applied              \* label scenario: how many of them have been applied

appVars == <<selectedExercise, repCount, isCounting, feedbackMessage,
             lastPosition, repStateCooldown, analysisIntervalRef, intervals,
             inflight, cooldownTimers, position, resolvedIndex, lastOp>>
svcVars == <<svcResponse, svcResult>>
scnVars == <<labels, applied>>
vars == <<selectedExercise, repCount, isCounting, feedbackMessage,
          lastPosition, repStateCooldown, analysisIntervalRef, intervals,
          inflight, cooldownTimers, position, resolvedIndex, lastOp,
          svcResponse, svcResult, labels, applied>>

\* the component as first rendered
AppInit ==
  /\ selectedExercise = NoExercise
  /\ repCount = 0
  /\ isCounting = FALSE
  /\ feedbackMessage = MsgChooseExercise
  /\ lastPosition = "NEUTRAL"
  /\ repStateCooldown = FALSE
  /\ analysisIntervalRef = NoInterval
  /\ intervals = {}
  /\ inflight = <<>>
  /\ cooldownTimers = <<>>
  /\ position = NoPosition
  /\ resolvedIndex = 0
  /\ lastOp = "init"

Init ==
  /\ AppInit
  /\ svcResponse = [kind |-> "rejected", text |-> <<>>]
  /\ svcResult = "PENDING"
  /\ labels = <<>>
  /\ applied = 0

\* ------------------------------------------------------------- operations
\* a mutant of ClearInterval: the timer is left running
ClearIntervalNoop(id, timers) == timers

\* clearInterval(id)
ClearInterval(id, timers) == {t \in timers : t.id # id}

\* window.setInterval returns an id no active timer has
FreshIntervalId(timers) ==
  CHOOSE i \in 1..(Cardinality(timers) + 1) : \A t \in timers : t.id # i

\* a mutant of StopCountingIntervals: stopCounting forgets clearInterval
StopCountingIntervalsKept == intervals

\* stopCounting, as used by itself and by resetCounter: the timers left
StopCountingIntervals ==
  IF analysisIntervalRef # NoInterval
    THEN ClearInterval(analysisIntervalRef, intervals)
    ELSE intervals

\* a mutant of StartCounting: the check of selectedExercise is missing
StartCountingNoCheck ==
  /\ ~isCounting
  /\ lastOp' = "start"
  /\ isCounting' = TRUE
  /\ feedbackMessage' = MsgReady
  /\ analysisIntervalRef' = FreshIntervalId(intervals)
  /\ intervals' = intervals \cup
       {[id |-> FreshIntervalId(intervals), exercise |-> selectedExercise]}
  /\ UNCHANGED <<selectedExercise, repCount, lastPosition, repStateCooldown,
                 inflight, cooldownTimers, position, resolvedIndex>>
  /\ UNCHANGED svcVars
  /\ UNCHANGED scnVars

\* the start/pause button runs startCounting when isCounting is false
StartCounting ==
  /\ ~isCounting
  /\ lastOp' = "start"
  /\ IF selectedExercise = NoExercise
       THEN /\ feedbackMessage' = MsgSelectFirst
            /\ UNCHANGED <<isCounting, analysisIntervalRef, intervals>>
       ELSE /\ isCounting' = TRUE
            /\ feedbackMessage' = MsgReady
            /\ analysisIntervalRef' = FreshIntervalId(intervals)
            /\ intervals' = intervals \cup
                 {[id |-> FreshIntervalId(intervals),
                   exercise |-> selectedExercise]}
  /\ UNCHANGED <<selectedExercise, repCount, lastPosition, repStateCooldown,
                 inflight, cooldownTimers, position, resolvedIndex>>
  /\ UNCHANGED svcVars
  /\ UNCHANGED scnVars

\* a mutant of StopCounting: pausing also zeroes the count
StopCountingZeroes ==
  /\ isCounting
  /\ lastOp' = "stop"
  /\ isCounting' = FALSE
  /\ intervals' = StopCountingIntervals
  /\ feedbackMessage' = MsgStopped
  /\ repCount' = 0
  /\ UNCHANGED <<selectedExercise, lastPosition, repStateCooldown,
                 analysisIntervalRef, inflight, cooldownTimers, position,
                 resolvedIndex>>
  /\ UNCHANGED svcVars
  /\ UNCHANGED scnVars

\* the start/pause button runs stopCounting when isCounting is true
StopCounting ==
  /\ isCounting
  /\ lastOp' = "stop"
  /\ isCounting' = FALSE
  /\ intervals' = StopCountingIntervals
  /\ feedbackMessage' = MsgStopped
  /\ UNCHANGED <<selectedExercise, repCount, lastPosition, repStateCooldown,
                 analysisIntervalRef, inflight, cooldownTimers, position,
                 resolvedIndex>>
  /\ UNCHANGED svcVars
  /\ UNCHANGED scnVars

\* a mutant of ResetCounter: the selection is dropped too
ResetCounterClearsSelection ==
  /\ lastOp' = "reset"
  /\ isCounting' = FALSE
  /\ intervals' = StopCountingIntervals
  /\ repCount' = 0
  /\ lastPosition' = "NEUTRAL"
  /\ selectedExercise' = NoExercise
  /\ feedbackMessage' = MsgChooseExercise
  /\ UNCHANGED <<repStateCooldown, analysisIntervalRef, inflight,
                 cooldownTimers, position, resolvedIndex>>
  /\ UNCHANGED svcVars
  /\ UNCHANGED scnVars

\* a mutant of ResetCounter: the pending timeout is cancelled, the flag kept
ResetCounterCancelsTimer ==
  /\ lastOp' = "reset"
  /\ isCounting' = FALSE
  /\ intervals' = StopCountingIntervals
  /\ repCount' = 0
  /\ lastPosition' = "NEUTRAL"
  /\ cooldownTimers' = <<>>
  /\ feedbackMessage' = IF selectedExercise # NoExercise
                          THEN MsgCounterZeroed
                          ELSE MsgChooseExercise
  /\ UNCHANGED <<selectedExercise, repStateCooldown, analysisIntervalRef,
                 inflight, position, resolvedIndex>>
  /\ UNCHANGED svcVars
  /\ UNCHANGED scnVars

\* stopCounting(), then the count and lastPosition are put back
ResetCounter ==
  /\ lastOp' = "reset"
  /\ isCounting' = FALSE
  /\ intervals' = StopCountingIntervals
  /\ repCount' = 0
  /\ lastPosition' = "NEUTRAL"
  /\ feedbackMessage' = IF selectedExercise # NoExercise
                          THEN MsgCounterZeroed
                          ELSE MsgChooseExercise
  /\ UNCHANGED <<selectedExercise, repStateCooldown, analysisIntervalRef,
                 inflight, cooldownTimers, position, resolvedIndex>>
  /\ UNCHANGED svcVars
  /\ UNCHANGED scnVars

\* a mutant of HandleSelectExercise: the call of resetCounter is missing
HandleSelectExerciseNoReset(exercise) ==
  /\ lastOp' = "select"
  /\ selectedExercise' = exercise
  /\ feedbackMessage' = MsgSelected(exercise)
  /\ UNCHANGED <<repCount, isCounting, lastPosition, repStateCooldown,
                 analysisIntervalRef, intervals, inflight, cooldownTimers,
                 position, resolvedIndex>>
  /\ UNCHANGED svcVars
  /\ UNCHANGED scnVars

\* resetCounter(), then setSelectedExercise and the feedback
HandleSelectExercise(exercise) ==
  /\ lastOp' = "select"
  /\ isCounting' = FALSE
  /\ intervals' = StopCountingIntervals
  /\ repCount' = 0
  /\ lastPosition' = "NEUTRAL"
  /\ selectedExercise' = exercise
  /\ feedbackMessage' = MsgSelected(exercise)
  /\ UNCHANGED <<repStateCooldown, analysisIntervalRef, inflight,
                 cooldownTimers, position, resolvedIndex>>
  /\ UNCHANGED svcVars
  /\ UNCHANGED scnVars

\* what a tick finds when it grabs the frame (refs, 2d context, data URL)
FrameOutcomes == {"frame", "noVideo", "noCanvas", "noContext", "emptyImage"}

\* if (!videoRef.current || !canvasRef.current || !selectedExercise) return;
RefsMissing(frame, exercise) ==
  frame \in {"noVideo", "noCanvas"} \/ exercise = NoExercise

\* if (!context) return;
ContextMissing(frame) == frame = "noContext"

\* a mutant of ImageEmpty: the check of base64Image is missing
ImageEmptyIgnored(frame) == FALSE

\* if (base64Image) { ... }: toDataURL gave no data
ImageEmpty(frame) == frame = "emptyImage"

\* analyzeFrame up to the await: one firing of an active interval.  lastOp
\* records whether a frame could be obtained on this tick.
AnalyzeFrameTick(timer, frame) ==
  /\ timer \in intervals
  /\ Len(inflight) < MaxInFlight
  /\ lastOp' = IF frame = "frame" THEN "tick" ELSE "tickSkipped"
  /\ IF RefsMissing(frame, timer.exercise)
       THEN UNCHANGED <<feedbackMessage, inflight>>
       ELSE IF ContextMissing(frame)
         THEN UNCHANGED <<feedbackMessage, inflight>>
         ELSE IF ImageEmpty(frame)
           THEN UNCHANGED <<feedbackMessage, inflight>>
           ELSE /\ feedbackMessage' = MsgAnalyzing
                /\ inflight' = Append(inflight, [exercise |-> timer.exercise])
  /\ UNCHANGED <<selectedExercise, repCount, isCounting, lastPosition,
                 repStateCooldown, analysisIntervalRef, intervals,
                 cooldownTimers, position, resolvedIndex>>
  /\ UNCHANGED svcVars
  /\ UNCHANGED scnVars

\* a mutant of CooldownReturns: the cooldown check is missing
CooldownReturnsNever(cooldown) == FALSE

\* if (repStateCooldown.current) return;
CooldownReturns(cooldown) == cooldown

\* a mutant of RepEdge: every UP counts
RepEdgeAnyUp(last, label) == label = "UP"

\* lastPosition.current === 'DOWN' && position === 'UP'
RepEdge(last, label) == last = "DOWN" /\ label = "UP"

\* setRepCount(prev => prev + 1)
NextRepCount(prev) == prev + 1

RemoveAt(s, i) == SubSeq(s, 1, i - 1) \o SubSeq(s, i + 1, Len(s))

\* analyzeFrame from the await on: request i resolves with the label the
\* service makes of the upstream response
AnalyzeFrameApply(i, response) ==
  LET label == ServiceAnalyzeFrame(response) IN
  /\ i \in 1..Len(inflight)
  /\ lastOp' = "result"
  /\ inflight' = RemoveAt(inflight, i)
  /\ resolvedIndex' = i
  /\ position' = label
  /\ IF CooldownReturns(repStateCooldown)
       THEN /\ feedbackMessage' = MsgPosition(label)
            /\ UNCHANGED <<repCount, repStateCooldown, cooldownTimers,
                           lastPosition>>
       ELSE /\ IF RepEdge(lastPosition, label)
                 THEN /\ repCount < MaxReps
                      /\ repCount' = NextRepCount(repCount)
                      /\ feedbackMessage' = MsgGreat
                      /\ repStateCooldown' = TRUE
                      /\ cooldownTimers' =
                           Append([k \in 1..Len(cooldownTimers) |-> FALSE], TRUE)
                 ELSE /\ feedbackMessage' = MsgPosition(label)
                      /\ UNCHANGED <<repCount, repStateCooldown,
                                     cooldownTimers>>
            /\ lastPosition' = label
  /\ UNCHANGED <<selectedExercise, isCounting, analysisIntervalRef, intervals>>

\* a classification of the sampling loop resolves
AnalyzeFrameResolve(i, response) ==
  /\ AnalyzeFrameApply(i, response)
  /\ UNCHANGED svcVars
  /\ UNCHANGED scnVars

\* the setTimeout callback: the oldest pending 500ms timer fires
CooldownTimerFires ==
  /\ cooldownTimers # <<>>
  /\ lastOp' = "cooldownClear"
  /\ repStateCooldown' = FALSE
  /\ cooldownTimers' = Tail(cooldownTimers)
  /\ UNCHANGED <<selectedExercise, repCount, isCounting, feedbackMessage,
                 lastPosition, analysisIntervalRef, intervals, inflight,
                 position, resolvedIndex>>
  /\ UNCHANGED svcVars
  /\ UNCHANGED scnVars

Next ==
  \/ StartCounting
  \/ StopCounting
  \/ ResetCounter
  \/ \E exercise \in Exercise : HandleSelectExercise(exercise)
  \/ \E timer \in intervals, frame \in FrameOutcomes :
       AnalyzeFrameTick(timer, frame)
  \/ \E i \in 1..MaxInFlight, response \in Responses :
       AnalyzeFrameResolve(i, response)
  \/ CooldownTimerFires

Spec == Init /\ [][Next]_vars

\* ------------------------------------- the classification service alone
SvcInit ==
  /\ AppInit
  /\ svcResponse \in UpstreamResponses
  /\ svcResult = "PENDING"
  /\ labels = <<>>
  /\ applied = 0

\* analyzeFrame of the service is called; upstream will answer with response
SvcCall(response) ==
  /\ svcResult # "PENDING"
  /\ svcResponse' = response
  /\ svcResult' = "PENDING"
  /\ UNCHANGED appVars
  /\ UNCHANGED scnVars

\* the promise of the service settles
SvcSettle ==
  /\ svcResult = "PENDING"
  /\ svcResult' = ServiceAnalyzeFrame(svcResponse)
  /\ UNCHANGED svcResponse
  /\ UNCHANGED appVars
  /\ UNCHANGED scnVars

SvcNext ==
  \/ \E response \in UpstreamResponses : SvcCall(response)
  \/ SvcSettle

SvcSpec == SvcInit /\ [][SvcNext]_vars

\* the browser runs every pending timeout callback
FairSpec == Spec /\ WF_vars(CooldownTimerFires)

\* ------------------------------------------------- the label scenario
\* a fresh session that was just started, and the labels it will be given
ScnInit ==
  /\ selectedExercise \in Exercise
  /\ repCount = 0
  /\ isCounting = TRUE
  /\ feedbackMessage = MsgReady
  /\ lastPosition = "NEUTRAL"
  /\ repStateCooldown = FALSE
  /\ analysisIntervalRef = 1
  /\ intervals = {[id |-> 1, exercise |-> selectedExercise]}
  /\ inflight = <<>>
  /\ cooldownTimers = <<>>
  /\ position = NoPosition
  /\ resolvedIndex = 0
  /\ lastOp = "start"
  /\ svcResponse = [kind |-> "rejected", text |-> <<>>]
  /\ svcResult = "PENDING"
  /\ labels \in UNION {[1..n -> RepState] : n \in 0..MaxLabels}
  /\ applied = 0

\* the next tick fires once the previous result is in and its cooldown over
ScnTick ==
  /\ inflight = <<>>
  /\ cooldownTimers = <<>>
  /\ applied < Len(labels)
  /\ \E timer \in intervals : AnalyzeFrameTick(timer, "frame")

\* the request resolves; the classifier returns the next label
ScnResolve ==
  /\ applied < Len(labels)
  /\ \E response \in Responses :
       /\ ServiceAnalyzeFrame(response) = labels[applied + 1]
       /\ AnalyzeFrameApply(1, response)
  /\ applied' = applied + 1
  /\ UNCHANGED labels
  /\ UNCHANGED svcVars

ScnNext ==
  \/ ScnTick
  \/ ScnResolve
  \/ CooldownTimerFires

ScnSpec == ScnInit /\ [][ScnNext]_vars

\* number of places where DOWN is immediately followed by UP
DownUpEdges(s) ==
  Cardinality({i \in 1..(Len(s) - 1) : s[i] = "DOWN" /\ s[i + 1] = "UP"})

TypeOK ==
  /\ selectedExercise \in Exercise \cup {NoExercise}
  /\ repCount \in 0..MaxReps
  /\ isCounting \in BOOLEAN
  /\ lastPosition \in RepState
  /\ repStateCooldown \in BOOLEAN
  /\ Len(inflight) <= MaxInFlight
  /\ position \in RepState \cup {NoPosition}

\* ------------------------------------------------------------- properties

\* C1: a classification result raises repCount, by exactly one, if and only
\* if lastPosition was DOWN, the label is UP and the cooldown was off when it
\* arrived; a DOWN->UP edge under cooldown never counts.
C1_EdgeRule ==
  [][lastOp' = "result" =>
       /\ repCount' \in {repCount, repCount + 1}
       /\ (repCount' = repCount + 1) <=>
            (lastPosition = "DOWN" /\ position' = "UP" /\ ~repStateCooldown)]_vars

C1_Witness == lastOp = "result" /\ feedbackMessage = MsgGreat /\ repCount = 1

\* C2: a classification that resolves while the loop is stopped (after stop
\* or reset, before the next start) changes neither repCount nor
\* lastPosition and does not set the cooldown.
C2_StaleResultDiscarded ==
  [][(lastOp' = "result" /\ ~isCounting) =>
       /\ repCount' = repCount
       /\ lastPosition' = lastPosition
       /\ (repStateCooldown' => repStateCooldown)]_vars

\* C3: right after reset, repCount is 0, lastPosition is NEUTRAL and the
\* cooldown is off, whatever the state before.
C3_AfterReset ==
  lastOp = "reset" =>
    (repCount = 0 /\ lastPosition = "NEUTRAL" /\ ~repStateCooldown)

\* C4: after every classification result lastPosition is the label just
\* returned, also when the cooldown suppressed counting.
C4_LastPositionTracksLabel ==
  lastOp = "result" => lastPosition = position

\* C5: the cooldown flag set by a counted rep is cleared only by the timer
\* that rep scheduled; a timer of an earlier rep never clears it.
C5_CooldownOwnTimer ==
  [][/\ (repStateCooldown /\ ~repStateCooldown') =>
          (/\ cooldownTimers # <<>>
           /\ Head(cooldownTimers)
           /\ cooldownTimers' = Tail(cooldownTimers))
     /\ (lastOp' = "cooldownClear" /\ repStateCooldown) =>
          (cooldownTimers # <<>> /\ Head(cooldownTimers))]_vars

C5_Witness ==
  lastOp = "cooldownClear" /\ repCount = 2 /\ cooldownTimers = <<>>

\* C6: results are applied in the order their requests were issued: the
\* request that resolves is always the oldest one in flight.
C6_AppliedInIssueOrder ==
  lastOp = "result" => resolvedIndex = 1

\* C7: at most one classification request is in flight at any time.
C7_NoOverlap == Len(inflight) <= 1

\* C8: repCount is a natural number; only reset and select lower it, only a
\* classification result raises it, and then by one.
C8_Monotonic ==
  [][/\ repCount' \in Nat
     /\ (repCount' < repCount) => lastOp' \in {"reset", "select"}
     /\ (repCount' > repCount) =>
          (lastOp' = "result" /\ repCount' = repCount + 1)]_vars

C8_Witness == lastOp = "result" /\ repCount = 2 /\ ~isCounting

\* C9: right after selectExercise(k) the selected exercise is k, repCount is
\* 0, lastPosition is NEUTRAL, isCounting is false and no sampling timer is
\* active.
C9_AfterSelect ==
  \A k \in Exercise :
    (lastOp = "select" /\ feedbackMessage = MsgSelected(k)) =>
      /\ selectedExercise = k
      /\ repCount = 0
      /\ lastPosition = "NEUTRAL"
      /\ ~isCounting
      /\ intervals = {}

C9_Witness ==
  /\ lastOp = "select"
  /\ selectedExercise = "Squats"
  /\ inflight # <<>>
  /\ inflight[1].exercise = "Pushups"
  /\ repStateCooldown

\* C10: the service resolves to one of UP, DOWN, NEUTRAL, never to an error,
\* and to NEUTRAL whenever upstream rejected, sent no text, or sent a text
\* that is not one of the three labels.
C10_ClassifyTotal ==
  svcResult # "PENDING" =>
    /\ svcResult \in RepState
    /\ (svcResponse \in MalformedResponses) => svcResult = "NEUTRAL"

C10_Witness ==
  /\ svcResult = "NEUTRAL"
  /\ svcResponse = [kind |-> "ok", text |-> <<" ", "'","U","P","'", "\t">>]

\* C11: start with no exercise selected changes only the feedback: the loop
\* is not started, no sampling timer is created, and the selection, the
\* count, lastPosition and the cooldown stay as they were.
C11_StartWithoutExercise ==
  [][(lastOp' = "start" /\ selectedExercise = NoExercise) =>
       /\ ~isCounting'
       /\ intervals' = intervals
       /\ analysisIntervalRef' = analysisIntervalRef
       /\ UNCHANGED <<selectedExercise, repCount, lastPosition,
                      repStateCooldown>>]_vars

C11_Witness ==
  lastOp = "start" /\ selectedExercise = NoExercise
    /\ feedbackMessage = MsgSelectFirst

\* C12: reset leaves the selected exercise as it was, absent included.
C12_ResetKeepsSelection ==
  [][lastOp' = "reset" => selectedExercise' = selectedExercise]_vars

C12_Witness ==
  lastOp = "reset" /\ selectedExercise = "JumpingJacks" /\ position = "UP"

\* C13: while the loop is stopped no tick runs and no request is issued,
\* and stop, reset and select leave the requests in flight alone.
C13_NoSamplingWhileStopped ==
  [][/\ (lastOp' \in {"tick", "tickSkipped"} \/ Len(inflight') > Len(inflight))
          => (isCounting /\ lastOp' \in {"tick", "tickSkipped"})
     /\ (lastOp' \in {"stop", "reset", "select"}) =>
          (inflight' = inflight /\ intervals' = {})]_vars

C13_Witness ==
  lastOp = "stop" /\ Len(inflight) = 2 /\ intervals = {}

\* C14: whenever the cooldown is on it is eventually off again, whatever
\* stop, reset or select do meanwhile.
C14_CooldownClears == repStateCooldown ~> ~repStateCooldown

C14_Witness ==
  lastOp = "reset" /\ repStateCooldown /\ ~isCounting

\* C15: from a fresh session, with labels applied one per tick and every
\* cooldown over before the next label, repCount is the number of places in
\* the labels applied so far where DOWN is immediately followed by UP.
C15_CountsDownUpEdges ==
  repCount = DownUpEdges(SubSeq(labels, 1, applied))

C15_Witness ==
  /\ labels = <<"NEUTRAL", "UP", "DOWN", "UP">>
  /\ applied = 4
  /\ repCount = 1

\* C16: a tick that cannot obtain a frame issues no request, leaves the
\* count, lastPosition, the cooldown, isCounting and the selection as they
\* were, and leaves the sampling timer running.
C16_TickWithoutFrame ==
  [][lastOp' = "tickSkipped" =>
       /\ inflight' = inflight
       /\ intervals' = intervals
       /\ intervals' # {}
       /\ UNCHANGED <<repCount, lastPosition, repStateCooldown, isCounting,
                      selectedExercise>>]_vars

C16_Witness ==
  lastOp = "tickSkipped" /\ repCount = 1 /\ isCounting /\ inflight # <<>>

\* C17: stop leaves the count, lastPosition, the cooldown and the selection
\* as they were, and a later start leaves the count as it was.
C17_StopKeepsCount ==
  [][/\ lastOp' = "stop" =>
          UNCHANGED <<repCount, lastPosition, repStateCooldown,
                      selectedExercise>>
     /\ lastOp' = "start" => repCount' = repCount]_vars

C17_Witness ==
  lastOp = "stop" /\ repCount = 1 /\ lastPosition = "UP" /\ repStateCooldown

\* C18: one sampling timer is active when isCounting is true and none when
\* it is false.
C18_OneSamplingTimer ==
  Cardinality(intervals) = IF isCounting THEN 1 ELSE 0

C18_Witness ==
  lastOp = "start" /\ isCounting /\ repCount = 1
    /\ Cardinality(intervals) = 1

\* C19: at most one cooldown timer is pending, and the cooldown is on
\* exactly when one is pending.
C19_OneCooldownTimer ==
  /\ Len(cooldownTimers) <= 1
  /\ repStateCooldown <=> (Len(cooldownTimers) = 1)

C19_Witness ==
  lastOp = "select" /\ repStateCooldown /\ Len(cooldownTimers) = 1
    /\ inflight # <<>>

\* C20: a request is issued with the exercise selected at that moment,
\* never with none and never with one that has been replaced.
C20_RequestUsesSelection ==
  [][Len(inflight') > Len(inflight) =>
       /\ inflight'[Len(inflight')].exercise = selectedExercise
       /\ inflight'[Len(inflight')].exercise \in Exercise]_vars

C20_Witness ==
  /\ lastOp = "tick"
  /\ selectedExercise = "Squats"
  /\ inflight = <<[exercise |-> "Pushups"], [exercise |-> "Squats"]>>
====
